---- MODULE Spec2Model ----
(***************************************************************************)
(* EarlyAllocator (arceos/modules/bump_allocator/src/lib.rs): a double-end *)
(* bump allocator.  Bytes are handed out forward from start (b_pos), pages *)
(* backward from end (p_pos); count is the number of byte allocations.     *)
(*                                                                         *)
(* usize is modelled as a WordBits-bit unsigned integer.  Rust arithmetic  *)
(* on it either panics on overflow (overflow-checks on, the debug profile) *)
(* or wraps modulo 2^WordBits (the release profile); the profile is chosen *)
(* once, in the initial state.  A panic halts the kernel: no operation     *)
(* runs after it.                                                          *)
(***************************************************************************)
EXTENDS Integers, Sequences, FiniteSets, TLC

VARIABLES
    start,      \* EarlyAllocator.start
    end,        \* EarlyAllocator.end
    b_pos,      \* EarlyAllocator.b_pos
    p_pos,      \* EarlyAllocator.p_pos
    count,      \* EarlyAllocator.count
    profile,    \* "debug" (overflow-checks, debug-assertions) or "release"
    panicked,   \* a panic was raised: the kernel has halted
    call,       \* the most recent &mut self call (or panic): its name and outcome
    live,       \* number of byte allocations made since the last init and not yet released
    stale,      \* number of byte allocations made before the last init and never released
    inits,      \* number of init calls made so far: 0, 1, or 2 for more than one
    byte_blocks, \* the outstanding byte allocations handed out since the only init
    page_blocks, \* the page blocks handed out since the only init
    tracked,    \* byte_blocks and page_blocks are being kept
    map,        \* the HashMap (axstd::collections::HashMap), if one was built
    latest      \* for each key inserted into map so far, the value of its last insert

vars == <<start, end, b_pos, p_pos, count, profile, panicked, call, live, stale, inits,
          byte_blocks, page_blocks, tracked, map, latest>>

----------------------------------------------------------------------------
(* Bounds of the model and the program's constant *)

WordBits == 4       \* width of usize in the model
PAGE_SIZE == 4      \* the const generic PAGE_SIZE
MaxAlignPow2 == 3   \* largest alignment exponent requested
MaxCount == 2       \* alloc is not called once count has reached this
InitBuckets == 1    \* number of buckets of a new HashMap (16 in hashmap.rs)
HashBits == 6       \* width of the u64 hash in the model
MaxKey == 3         \* the keys inserted are the bytes 0..MaxKey
HashMul == 31       \* the multiplier of SimpleHasher::write

Word == 2^WordBits

Starts == {0, PAGE_SIZE, Word - 3}
Sizes == {2, 2 * PAGE_SIZE, 2 * PAGE_SIZE + 3}
AllocSizes == {0, 1, PAGE_SIZE + 1}
Aligns == {1, 2, 2^MaxAlignPow2}
NumPages == {0, 1, 2, (Word \div PAGE_SIZE) + 1}
AlignPow2s == {0, 2, MaxAlignPow2, WordBits}

----------------------------------------------------------------------------
(* usize arithmetic *)

Fits(x) == x \in 0..(Word - 1)

Wrap(x) == x % Word

RECURSIVE BitAnd(_, _, _)
BitAnd(x, y, n) ==
    IF n = 0 THEN 0
    ELSE (x % 2) * (y % 2) + 2 * BitAnd(x \div 2, y \div 2, n - 1)

BitNot(x) == Word - 1 - x

\* x & !(align - 1)
MaskDown(x, align) == BitAnd(x, BitNot(align - 1), WordBits)

\* 1 << n: a shift by WordBits or more panics with overflow checks and
\* otherwise shifts by n modulo WordBits
ShlOverflows(n) == n >= WordBits
Shl1(n) == 2^(n % WordBits)

----------------------------------------------------------------------------
(* Query accessors: the value returned when the subtraction wraps *)

total_bytes == Wrap(end - start)
used_bytes == Wrap(b_pos - start)
available_bytes == Wrap(p_pos - b_pos)
total_pages == Wrap(end - start) \div PAGE_SIZE
used_pages == Wrap(end - p_pos) \div PAGE_SIZE
available_pages == Wrap(p_pos - b_pos) \div PAGE_SIZE

Call(op, result, value) == [op |-> op, result |-> result, value |-> value]

----------------------------------------------------------------------------
(* What the callers hold: the address ranges handed out to them.  The       *)
(* allocator keeps no such record; these are kept beside it, from the only  *)
(* init on, until a call hands out a range twice or outside the region or a *)
(* second init invalidates them.                                            *)

\* the range [lo, lo + size) a caller was given
Block(lo, size) == <<lo, lo + size>>

\* the addresses of a block
Cells(r) == r[1] .. (r[2] - 1)

\* the byte blocks bb and page blocks pb are pairwise disjoint and lie inside
\* [start, end)
BlocksSound(bb, pb) ==
    /\ \A i, j \in 1..Len(bb) : i # j => Cells(bb[i]) \cap Cells(bb[j]) = {}
    /\ \A r, q \in pb : r # q => Cells(r) \cap Cells(q) = {}
    /\ \A i \in 1..Len(bb), r \in pb : Cells(bb[i]) \cap Cells(r) = {}
    /\ \A i \in 1..Len(bb) : Cells(bb[i]) \subseteq start..(end - 1)
    /\ \A r \in pb : Cells(r) \subseteq start..(end - 1)

Tracking == tracked /\ inits = 1

\* the blocks the callers hold after a call are bb and pb
Record(bb, pb) ==
    IF ~Tracking
    THEN UNCHANGED <<byte_blocks, page_blocks, tracked>>
    ELSE IF BlocksSound(bb, pb)
         THEN byte_blocks' = bb /\ page_blocks' = pb /\ UNCHANGED tracked
         ELSE byte_blocks' = <<>> /\ page_blocks' = {} /\ tracked' = FALSE

\* the sequence s without its i-th element
RemoveAt(s, i) == SubSeq(s, 1, i - 1) \o SubSeq(s, i + 1, Len(s))

\* no HashMap has been built
NoMap == [seed |-> 0, buckets |-> <<>>, bucket_count |-> 0, size |-> 0]

----------------------------------------------------------------------------
(* EarlyAllocator::new *)
new ==
    /\ start = 0
    /\ end = 0
    /\ b_pos = 0
    /\ p_pos = 0
    /\ count = 0
    /\ profile \in {"debug", "release"}
    /\ panicked = FALSE
    /\ call = Call("new", "unit", 0)
    /\ live = 0
    /\ stale = 0
    /\ inits = 0
    /\ byte_blocks = <<>>
    /\ page_blocks = {}
    /\ tracked = TRUE

Init == new /\ map = NoMap /\ latest = <<>>

\* a slip init could make: an inclusive end
init_end_inclusive(s, size) == Wrap(s + size - 1)

\* line 72: self.end = start + size, as the release profile computes it
init_end(s, size) == Wrap(s + size)

(* BaseAllocator::init *)
init(s, size) ==
    /\ ~panicked
    /\ inits' = IF inits = 0 THEN 1 ELSE 2
    /\ start' = s
    /\ live' = 0
    /\ stale' = stale + live
    /\ byte_blocks' = <<>>
    /\ page_blocks' = {}
    /\ tracked' = (inits = 0)
    /\ UNCHANGED <<count, profile, map, latest>>
    /\ IF profile = "debug" /\ ~Fits(s + size)
       THEN /\ panicked' = TRUE
            /\ call' = Call("init", "panic", 0)
            /\ UNCHANGED <<end, b_pos, p_pos>>
       ELSE /\ end' = init_end(s, size)
            /\ b_pos' = s
            /\ p_pos' = end'
            /\ call' = Call("init", "unit", 0)
            /\ UNCHANGED panicked

\* a slip alloc could make: rounding up from b_pos + align, which moves an
\* aligned cursor to the next multiple
alloc_pos_skip(b, align) == MaskDown(Wrap(b + align), align)

\* line 86: (self.b_pos + align - 1) & !(align - 1), as the release profile computes it
alloc_pos(b, align) == MaskDown(Wrap(b + align - 1), align)

\* line 88: self.b_pos += layout.size()
alloc_end(pos, size) == Wrap(pos + size)

\* line 89: self.count += 1 (the bounds keep count far below 2^WordBits)
alloc_count(c) == c + 1

(* ByteAllocator::alloc *)
alloc(size, align) ==
    /\ ~panicked
    /\ count < MaxCount
    /\ UNCHANGED <<start, end, p_pos, profile, stale, inits, map, latest>>
    /\ LET pos == alloc_pos(b_pos, align) IN
       IF profile = "debug" /\ ~Fits(b_pos + align)
       THEN \* line 86 overflows: the panic comes before any field is written
            /\ panicked' = TRUE
            /\ call' = Call("alloc", "panic", 0)
            /\ UNCHANGED <<b_pos, count, live, byte_blocks, page_blocks, tracked>>
       ELSE \/ \* line 87: NonNull::new_unchecked(null) is undefined behaviour; a build
               \* with debug assertions may stop at the precondition check
               /\ pos = 0
               /\ profile = "debug"
               /\ panicked' = TRUE
               /\ b_pos' = pos
               /\ call' = Call("alloc", "panic", 0)
               /\ UNCHANGED <<count, live, byte_blocks, page_blocks, tracked>>
            \/ \* line 88 overflows with overflow checks on
               /\ profile = "debug"
               /\ ~Fits(pos + size)
               /\ panicked' = TRUE
               /\ b_pos' = pos
               /\ call' = Call("alloc", "panic", 0)
               /\ UNCHANGED <<count, live, byte_blocks, page_blocks, tracked>>
            \/ /\ profile = "debug" => Fits(pos + size)
               /\ b_pos' = alloc_end(pos, size)
               /\ count' = alloc_count(count)
               /\ call' = Call("alloc", "Ok", pos)
               /\ live' = live + 1
               /\ Record(Append(byte_blocks, Block(pos, size)), page_blocks)
               /\ UNCHANGED panicked

\* slips dealloc could make: the reset of b_pos left out, and a reset to
\* address 0 instead of start
dealloc_b_pos_kept(c, b, s) == b
dealloc_b_pos_zero(c, b, s) == IF c = 0 THEN 0 ELSE b

\* lines 95-97: if self.count == 0 { self.b_pos = self.start; }
dealloc_b_pos(c, b, s) == IF c = 0 THEN s ELSE b

(* ByteAllocator::dealloc, called for an outstanding allocation; the code *)
(* reads neither pos nor layout, so which one is released makes no        *)
(* difference to it                                                       *)
dealloc ==
    /\ ~panicked
    /\ live > 0
    /\ UNCHANGED <<start, end, p_pos, profile, stale, inits, map, latest>>
    /\ live' = live - 1
    /\ IF Tracking
       THEN \E i \in 1..Len(byte_blocks) :
               Record(RemoveAt(byte_blocks, i), page_blocks)
       ELSE Record(byte_blocks, page_blocks)
    /\ IF profile = "debug" /\ count = 0
       THEN /\ panicked' = TRUE
            /\ call' = Call("dealloc", "panic", 0)
            /\ UNCHANGED <<b_pos, count>>
       ELSE /\ count' = Wrap(count - 1)
            /\ b_pos' = dealloc_b_pos(count', b_pos, start)
            /\ call' = Call("dealloc", "unit", 0)
            /\ UNCHANGED panicked

\* slips alloc_pages could make: the alignment mask left out, and rounding up
\* where the code rounds down
alloc_pages_pos_unmasked(p, size, align) == Wrap(p - size)
alloc_pages_pos_up(p, size, align) == MaskDown(Wrap(Wrap(p - size) + align - 1), align)

\* line 119: (self.p_pos - size) & !(align - 1), as the release profile computes it
alloc_pages_pos(p, size, align) == MaskDown(Wrap(p - size), align)

(* PageAllocator::alloc_pages *)
alloc_pages(num_pages, align_pow2) ==
    /\ ~panicked
    /\ UNCHANGED <<start, end, b_pos, count, profile, live, stale, inits, map, latest>>
    /\ LET size == Wrap(num_pages * PAGE_SIZE)
           align == Shl1(align_pow2)
       IN IF /\ profile = "debug"
             /\ \/ ~Fits(num_pages * PAGE_SIZE)    \* line 117 overflows
                \/ ShlOverflows(align_pow2)        \* line 118 overflows
                \/ ~Fits(p_pos - size)             \* line 119 overflows
          THEN /\ panicked' = TRUE
               /\ call' = Call("alloc_pages", "panic", 0)
               /\ UNCHANGED <<p_pos, byte_blocks, page_blocks, tracked>>
          ELSE /\ p_pos' = alloc_pages_pos(p_pos, size, align)
               /\ call' = Call("alloc_pages", "Ok", p_pos')
               /\ Record(byte_blocks,
                         IF num_pages > 0
                         THEN page_blocks \cup {Block(p_pos', num_pages * PAGE_SIZE)}
                         ELSE page_blocks)
               /\ UNCHANGED panicked

(* PageAllocator::dealloc_pages: unimplemented!() *)
dealloc_pages(pos, num_pages) ==
    /\ ~panicked
    /\ panicked' = TRUE
    /\ call' = Call("dealloc_pages", "panic", 0)
    /\ UNCHANGED <<start, end, b_pos, p_pos, count, profile, live, stale, inits,
                   byte_blocks, page_blocks, tracked, map, latest>>

(* BaseAllocator::add_memory: unimplemented!() *)
add_memory(s, size) ==
    /\ ~panicked
    /\ panicked' = TRUE
    /\ call' = Call("add_memory", "panic", 0)
    /\ UNCHANGED <<start, end, b_pos, p_pos, count, profile, live, stale, inits,
                   byte_blocks, page_blocks, tracked, map, latest>>

\* a slip an accessor could make: used_bytes() computed by moving b_pos
query_draining(q) ==
    /\ ~panicked
    /\ b_pos' = start
    /\ UNCHANGED <<start, end, p_pos, count, profile, panicked, call, live, stale, inits,
                   byte_blocks, page_blocks, tracked, map, latest>>

Queries ==
    {"total_bytes", "used_bytes", "available_bytes",
     "total_pages", "used_pages", "available_pages"}

QueryValue(q) ==
    CASE q = "total_bytes" -> total_bytes
      [] q = "used_bytes" -> used_bytes
      [] q = "available_bytes" -> available_bytes
      [] q = "total_pages" -> total_pages
      [] q = "used_pages" -> used_pages
      [] q = "available_pages" -> available_pages

\* the subtraction of the accessor overflows
QueryOverflows(q) ==
    CASE q \in {"total_bytes", "total_pages"} -> end < start
      [] q = "used_bytes" -> b_pos < start
      [] q \in {"available_bytes", "available_pages"} -> p_pos < b_pos
      [] q = "used_pages" -> end < p_pos

(* One of the six accessors is called.  They take &self: a call that     *)
(* returns leaves the allocator, and so the state, as it was, and its     *)
(* value is QueryValue(q) of that state                                   *)
query(q) ==
    /\ ~panicked
    /\ UNCHANGED <<start, end, b_pos, p_pos, count, profile, live, stale, inits,
                   byte_blocks, page_blocks, tracked, map, latest>>
    /\ IF profile = "debug" /\ QueryOverflows(q)
       THEN /\ panicked' = TRUE
            /\ call' = Call(q, "panic", 0)
       ELSE UNCHANGED <<panicked, call>>

Next ==
    \/ \E s \in Starts, size \in Sizes : init(s, size)
    \/ \E size \in AllocSizes, align \in Aligns : alloc(size, align)
    \/ dealloc
    \/ \E n \in NumPages, a \in AlignPow2s : alloc_pages(n, a)
    \/ \E n \in {1} : dealloc_pages(p_pos, n)
    \/ \E size \in {PAGE_SIZE} : add_memory(end, size)
    \/ \E q \in Queries : query(q)

Spec == Init /\ [][Next]_vars

----------------------------------------------------------------------------
(* HashMap (ulib/axstd/src/collections/hashmap.rs), with keys of type u8.   *)
(* A map is the record of the struct's fields; buckets is a sequence of     *)
(* bucket_count sequences of <<key, value>> pairs, bucket i of the code     *)
(* being buckets[i + 1].                                                    *)

Keys == 0..MaxKey
Values == {0, 1}
Seeds == {0, 1, 2^HashBits - 1}

RECURSIVE vec_new(_)
\* vec![Vec::new(); n]
vec_new(n) == IF n = 0 THEN <<>> ELSE Append(vec_new(n - 1), <<>>)

\* HashMap::new; seed is the value random() returned
HashMap_new(seed) ==
    [seed |-> seed,
     buckets |-> vec_new(InitBuckets),
     bucket_count |-> InitBuckets,
     size |-> 0]

\* SimpleHasher::write for one byte: wrapping_mul(31).wrapping_add(byte)
write(h, byte) == (h * HashMul + byte) % 2^HashBits

\* HashMap::hash: u8's Hash writes the key as one byte
hash(m, key) == write(m.seed, key) % m.bucket_count

\* a slip insert could make: the value of a key already present left as it was
bucket_update_kept(bucket, i, key, value) == bucket

\* line 96: p.1 = value
bucket_update(bucket, i, key, value) == [bucket EXCEPT ![i] = <<key, value>>]

\* lines 94-95: the places in the bucket where p.0 == key
found(bucket, key) == {i \in 1..Len(bucket) : bucket[i][1] = key}

\* the first of them, where the loop of insert stops
first(bucket, key) == CHOOSE i \in found(bucket, key) : \A j \in found(bucket, key) : i <= j

\* lines 100-101: bucket.push((key, value)); self.size += 1
push(m, index, key, value) ==
    [m EXCEPT !.buckets[index] = Append(m.buckets[index], <<key, value>>),
              !.size = m.size + 1]

\* lines 122-123: self.bucket_count *= 2; self.buckets = vec![Vec::new(); self.bucket_count]
emptied(m) ==
    [seed |-> m.seed,
     buckets |-> vec_new(m.bucket_count * 2),
     bucket_count |-> m.bucket_count * 2,
     size |-> m.size]

RECURSIVE InsertAll(_, _)
RECURSIVE Insert(_, _, _)

\* HashMap::rehash
rehash(m) == InsertAll(emptied(m), m.buckets)

\* lines 124-128: the loops of rehash over the old buckets and their pairs
InsertAll(m, old) ==
    IF old = <<>> THEN m
    ELSE IF Head(old) = <<>> THEN InsertAll(m, Tail(old))
    ELSE InsertAll(Insert(m, Head(old)[1][1], Head(old)[1][2]),
                   <<Tail(Head(old))>> \o Tail(old))

\* lines 102-104: if self.size > self.bucket_count * 2 { self.rehash(); }
pushed(m) == IF m.size > m.bucket_count * 2 THEN rehash(m) ELSE m

\* HashMap::insert
Insert(m, key, value) ==
    IF found(m.buckets[hash(m, key) + 1], key) # {}
    THEN [m EXCEPT !.buckets[hash(m, key) + 1] =
                      bucket_update(@, first(@, key), key, value)]
    ELSE pushed(push(m, hash(m, key) + 1, key, value))

\* HashMap::size
HashMap_size(m) == m.size

RECURSIVE iter_next(_, _, _)
\* Iter::next, called until it returns None: the pairs it yields, in order
iter_next(buckets, index1, index2) ==
    IF index1 >= Len(buckets) THEN <<>>
    ELSE IF index2 >= Len(buckets[index1 + 1])
         THEN iter_next(buckets, index1 + 1, 0)
         ELSE <<buckets[index1 + 1][index2 + 1]>> \o iter_next(buckets, index1, index2 + 1)

\* HashMap::iter, collected
iter(m) == iter_next(m.buckets, 0, 0)

\* the variables of the allocator and of its callers
allocator_vars ==
    <<start, end, b_pos, p_pos, count, profile, panicked, call, live, stale, inits,
      byte_blocks, page_blocks, tracked>>

\* a program that builds a HashMap and leaves the allocator alone
InitMap ==
    /\ new
    /\ map \in {HashMap_new(seed) : seed \in Seeds}
    /\ latest = <<>>

(* a call of HashMap::insert *)
insert(key, value) ==
    /\ map' = Insert(map, key, value)
    /\ latest' = [k \in DOMAIN latest \cup {key} |-> IF k = key THEN value ELSE latest[k]]
    /\ UNCHANGED allocator_vars

NextMap == \E key \in Keys, value \in Values : insert(key, value)

SpecMap == InitMap /\ [][NextMap]_vars

----------------------------------------------------------------------------
(* Arithmetic on the integers, used to state the properties *)

\* the smallest multiple of m that is >= x
RoundUp(x, m) == ((x + m - 1) \div m) * m

\* the largest multiple of m that is <= x
RoundDown(x, m) == (x \div m) * m

\* the last init set up a region with start <= end (start + size did not overflow)
RegionValid == inits >= 1 /\ start <= end

----------------------------------------------------------------------------
(* C1: after init(s, n), whatever alloc, dealloc, alloc_pages and accessor  *)
(* calls follow, start <= b_pos <= p_pos <= end: the two cursors never      *)
(* cross and stay inside the region.                                        *)
C1_PartitionInvariant ==
    (inits = 1 /\ start <= end /\ ~panicked)
        => (start <= b_pos /\ b_pos <= p_pos /\ p_pos <= end)

(* C2: an alloc or alloc_pages request that would make b_pos exceed p_pos  *)
(* is answered with an explicit failure, and b_pos, p_pos and count stay   *)
(* as they were.                                                           *)
C2_RegionExhaustedReported ==
    [][RegionValid =>
        /\ \A size \in AllocSizes, align \in Aligns :
              (alloc(size, align) /\ RoundUp(b_pos, align) + size > p_pos)
                  => (call'.result = "Err" /\ UNCHANGED <<b_pos, p_pos, count>>)
        /\ \A n \in NumPages, a \in AlignPow2s :
              (alloc_pages(n, a) /\ RoundDown(p_pos - n * PAGE_SIZE, 2^a) < b_pos)
                  => (call'.result = "Err" /\ UNCHANGED <<b_pos, p_pos, count>>)
    ]_vars

(* C3: right after init(s, n) returns, the accessors return               *)
(* total_bytes() = n, used_bytes() = 0, available_bytes() = n and         *)
(* total_pages() = n div PAGE_SIZE, for every s and n.                    *)
C3_AfterInit ==
    [][\A s \in Starts, n \in Sizes :
          (init(s, n) /\ ~panicked')
              => /\ total_bytes' = n
                 /\ used_bytes' = 0
                 /\ available_bytes' = n
                 /\ total_pages' = n \div PAGE_SIZE
                 /\ profile = "debug" => \A q \in Queries : ~QueryOverflows(q)'
    ]_vars

\* an init of a region whose size is no multiple of the page size has returned
C3_Witness ==
    /\ call.op = "init"
    /\ call.result = "unit"
    /\ total_bytes = 2 * PAGE_SIZE + 3
    /\ total_pages = 2
    /\ available_bytes = 2 * PAGE_SIZE + 3

(* C4: init sets count to 0 whatever the state before the call, so that    *)
(* after any init, k allocs followed by k deallocs end with                *)
(* used_bytes() = 0.                                                       *)
C4_InitResetsCount ==
    /\ (call.op = "init" /\ call.result = "unit") => count = 0
    /\ (inits >= 1 /\ call.op = "dealloc" /\ call.result = "unit" /\ live = 0)
          => used_bytes = 0

C6_AllocRunMonotone ==
    [][\A size \in AllocSizes, align \in Aligns :
          (inits >= 1 /\ alloc(size, align) /\ call'.result = "Ok")
              => /\ used_bytes' >= used_bytes
                 /\ call'.value % align = 0
                 /\ (call.op = "alloc" /\ call.result = "Ok") => call'.value >= b_pos
    ]_vars

\* every byte allocation made since a fresh init (nothing outstanding at
\* that init) has been released
Drained ==
    /\ inits >= 1
    /\ stale = 0
    /\ live = 0
    /\ call.op = "dealloc"
    /\ call.result = "unit"

C8_PartialReleaseKeepsCursor ==
    [][/\ (dealloc /\ ~panicked' /\ count' > 0) => b_pos' = b_pos
       /\ \A size \in AllocSizes, align \in Aligns :
             (/\ inits >= 1
              /\ call.op = "dealloc"
              /\ count > 0
              /\ alloc(size, align)
              /\ call'.result = "Ok")
                 => call'.value >= b_pos
    ]_vars

\* the step is a call of init
IsInit == \E s \in Starts, n \in Sizes : init(s, n)

(* C9: on an initialised region an alloc_pages(k, a) that returns sets     *)
(* p_pos to (p_pos - k * PAGE_SIZE) rounded down to a multiple of 2^a and  *)
(* returns it; the address is strictly below                               *)
(* the previous p_pos and a multiple of 2^a; and p_pos never increases     *)
(* over the operations that follow init.                                   *)
C9_AllocPagesMovesDown ==
    [][/\ \A k \in NumPages, a \in AlignPow2s :
             (RegionValid /\ alloc_pages(k, a) /\ ~panicked')
                 => /\ call'.result = "Ok"
                    /\ p_pos' = RoundDown(p_pos - k * PAGE_SIZE, 2^a)
                    /\ call'.value = p_pos'
                    /\ p_pos' < p_pos
                    /\ p_pos' % (2^a) = 0
       /\ (inits >= 1 /\ ~IsInit) => p_pos' <= p_pos
    ]_vars

\* the request underflows usize: k * PAGE_SIZE exceeds p_pos
PagesUnderflow(k) == k * PAGE_SIZE > p_pos

(* C9 as amended: when k * PAGE_SIZE <= p_pos and 2^a fits in usize,       *)
(* alloc_pages(k, a) sets p_pos to (p_pos - k * PAGE_SIZE) rounded down to *)
(* a multiple of 2^a and returns it; the address is at or below the        *)
(* previous p_pos, strictly below when k >= 1, and a multiple of 2^a; and  *)
(* p_pos never increases except by an init or by an alloc_pages whose      *)
(* k * PAGE_SIZE exceeds p_pos.                                            *)
C9_AllocPagesMovesDownNoUnderflow ==
    [][/\ \A k \in NumPages, a \in AlignPow2s :
             (/\ call'.op = "alloc_pages"
              /\ ~PagesUnderflow(k)
              /\ ~ShlOverflows(a)
              /\ alloc_pages(k, a))
                 => /\ call'.result = "Ok"
                    /\ p_pos' = RoundDown(p_pos - k * PAGE_SIZE, 2^a)
                    /\ call'.value = p_pos'
                    /\ p_pos' <= p_pos
                    /\ k >= 1 => p_pos' < p_pos
                    /\ p_pos' % (2^a) = 0
       /\ (inits >= 1 /\ p_pos' > p_pos)
              => \/ IsInit
                 \/ \E k \in NumPages, a \in AlignPow2s :
                       PagesUnderflow(k) /\ alloc_pages(k, a)
    ]_vars

\* a page block was returned below an unaligned end, at an address the mask
\* rounded down
C9_Witness ==
    /\ RegionValid
    /\ call.op = "alloc_pages"
    /\ call.result = "Ok"
    /\ call.value = p_pos
    /\ b_pos <= p_pos
    /\ p_pos < end
    /\ p_pos % PAGE_SIZE = 0
    /\ (end - p_pos) % PAGE_SIZE # 0

(* C10: with no byte allocation in between, available_pages() after        *)
(* alloc_pages(k, a) is available_pages() before minus exactly k, for      *)
(* every k, a and position of the cursors; stated here for the calls on an *)
(* initialised region whose block fits between the cursors.                *)
C10_AvailablePagesDropByK ==
    [][\A k \in NumPages, a \in AlignPow2s :
          (/\ RegionValid
           /\ alloc_pages(k, a)
           /\ call'.result = "Ok"
           /\ ~PagesUnderflow(k)
           /\ p_pos' >= b_pos)
              => available_pages' = available_pages - k
    ]_vars

(* C10 as amended: when k * PAGE_SIZE <= p_pos and the new p_pos is still  *)
(* >= b_pos, available_pages() after alloc_pages(k, a) is at most          *)
(* available_pages() before minus k, and exactly that when p_pos moved by  *)
(* exactly k * PAGE_SIZE (the mask removed nothing).                       *)
C10_AvailablePagesDropAtLeastK ==
    [][\A k \in NumPages, a \in AlignPow2s :
          (/\ call'.op = "alloc_pages"
           /\ call'.result = "Ok"
           /\ ~PagesUnderflow(k)
           /\ p_pos' >= b_pos
           /\ alloc_pages(k, a))
              => /\ available_pages' <= available_pages - k
                 /\ p_pos' = p_pos - k * PAGE_SIZE
                        => available_pages' = available_pages - k
    ]_vars

\* one page of a two-page region was handed out and one is left
C10_Witness ==
    /\ RegionValid
    /\ call.op = "alloc_pages"
    /\ call.result = "Ok"
    /\ b_pos = start
    /\ used_pages = 1
    /\ available_pages = 1

----------------------------------------------------------------------------
\* the five fields of EarlyAllocator
fields == <<start, end, b_pos, p_pos, count>>

(* C11: dealloc_pages(pos, n) returns to its caller with an Unsupported    *)
(* failure, in every state and for every argument, leaves start, end,      *)
(* b_pos, p_pos and count as they were, and the allocator can be used      *)
(* afterwards.                                                             *)
C11_DeallocPagesUnsupported ==
    [][\A pos \in 0..(Word - 1), n \in NumPages :
          dealloc_pages(pos, n)
              => /\ call'.op = "dealloc_pages"
                 /\ call'.result = "Unsupported"
                 /\ ~panicked'
                 /\ UNCHANGED fields
    ]_vars

(* C12: add_memory(start, size) returns an Unsupported failure as a result *)
(* value, not by aborting, in every state and for every argument, and      *)
(* leaves start, end, b_pos, p_pos and count as they were.                 *)
C12_AddMemoryUnsupported ==
    [][\A s \in 0..(Word - 1), size \in Sizes \cup {PAGE_SIZE} :
          add_memory(s, size)
              => /\ call'.op = "add_memory"
                 /\ call'.result = "Unsupported"
                 /\ ~panicked'
                 /\ UNCHANGED fields
    ]_vars

(* C13: the mixed scenario, scaled to the model's page size P = PAGE_SIZE  *)
(* (P for 0x1000, an allocation of 1 byte aligned to 2 for alloc(8, 8),    *)
(* the exponent of P for 12): after init(P, 2P), alloc returns P and       *)
(* used_bytes() = 1; then alloc_pages(1, log2 P) returns 2P, used_pages()  *)
(* = 1 and available_bytes() = P - 1.  And in general an alloc_pages call  *)
(* that returns lowers available_bytes() by the distance p_pos moved and   *)
(* leaves used_bytes() as it was; stated here for the calls on a region    *)
(* whose cursors have not crossed and whose k * PAGE_SIZE <= p_pos.        *)
C13_MixedScenario ==
    [][/\ (/\ inits = 1
           /\ call.op = "init"
           /\ start = PAGE_SIZE
           /\ end = 3 * PAGE_SIZE
           /\ alloc(1, 2)
           /\ ~panicked')
              => /\ call'.result = "Ok"
                 /\ call'.value = PAGE_SIZE
                 /\ used_bytes' = 1
       /\ (/\ inits = 1
           /\ call.op = "alloc"
           /\ start = PAGE_SIZE
           /\ end = 3 * PAGE_SIZE
           /\ b_pos = PAGE_SIZE + 1
           /\ p_pos = end
           /\ alloc_pages(1, 2)
           /\ ~panicked')
              => /\ call'.result = "Ok"
                 /\ call'.value = 2 * PAGE_SIZE
                 /\ used_pages' = 1
                 /\ available_bytes' = PAGE_SIZE - 1
       /\ \A k \in NumPages, a \in AlignPow2s :
             (/\ RegionValid
              /\ b_pos <= p_pos
              /\ ~PagesUnderflow(k)
              /\ ~ShlOverflows(a)
              /\ alloc_pages(k, a)
              /\ call'.result = "Ok")
                 => /\ available_bytes' = available_bytes - (p_pos - p_pos')
                    /\ used_bytes' = used_bytes
    ]_vars

\* the step is a call of alloc, of alloc_pages
IsAlloc == \E size \in AllocSizes, align \in Aligns : alloc(size, align)
IsAllocPages == \E k \in NumPages, a \in AlignPow2s : alloc_pages(k, a)

(* C14: before the first init (the all-zero allocator built by new) only   *)
(* init is accepted: an alloc, dealloc or alloc_pages call made then       *)
(* changes no field and hands out no address.                              *)
C14_UninitialisedAcceptsOnlyInit ==
    [][(inits = 0 /\ (IsAlloc \/ dealloc \/ IsAllocPages))
          => (UNCHANGED fields /\ call'.result # "Ok")
    ]_vars

(* C15: after a single init, whatever alloc, matching dealloc and          *)
(* alloc_pages calls follow, the outstanding ranges (the live byte         *)
(* allocations [a, a + size) and all page blocks [p, p + k * PAGE_SIZE))   *)
(* are pairwise disjoint and lie inside [start, end): every range handed   *)
(* out is disjoint from those outstanding and inside the region.           *)
C15_NoDoubleHandOut ==
    [][/\ \A size \in AllocSizes, align \in Aligns :
             (Tracking /\ alloc(size, align) /\ call'.result = "Ok")
                 => BlocksSound(Append(byte_blocks, Block(call'.value, size)),
                                page_blocks)
       /\ \A k \in NumPages \ {0}, a \in AlignPow2s :
             (Tracking /\ alloc_pages(k, a) /\ call'.result = "Ok")
                 => BlocksSound(byte_blocks,
                                page_blocks \cup {Block(call'.value, k * PAGE_SIZE)})
    ]_vars

(* C16: in every state reached from new through init, alloc, matching      *)
(* dealloc and alloc_pages calls, count = 0 implies b_pos = start, so      *)
(* used_bytes() = 0 whenever no byte allocation is outstanding.            *)
C16_DrainedCursorAtStart ==
    ~panicked =>
        /\ (live = 0 /\ stale = 0) => count = 0
        /\ count = 0 => (b_pos = start /\ used_bytes = 0)

\* the last byte allocation of a region with pages handed out was released
C16_Witness ==
    /\ inits = 1
    /\ call.op = "dealloc"
    /\ call.result = "unit"
    /\ count = 0
    /\ start = PAGE_SIZE
    /\ b_pos = start
    /\ p_pos < end

(* C17: alloc and dealloc leave start, end and p_pos unchanged;            *)
(* alloc_pages leaves start, end, b_pos and count unchanged; the six       *)
(* accessors change no field.                                              *)
C17_FrameEffects ==
    [][/\ (call'.op \in {"alloc", "dealloc"} /\ (IsAlloc \/ dealloc))
             => UNCHANGED <<start, end, p_pos>>
       /\ (call'.op = "alloc_pages" /\ IsAllocPages)
             => UNCHANGED <<start, end, b_pos, count>>
       /\ (\E q \in Queries : query(q)) => UNCHANGED fields
    ]_vars

\* pages were handed out while a byte allocation was live, and the byte side
\* is as the alloc left it
C17_Witness ==
    /\ RegionValid
    /\ call.op = "alloc_pages"
    /\ call.result = "Ok"
    /\ count = 1
    /\ live = 1
    /\ b_pos = start + 1
    /\ p_pos = end - PAGE_SIZE

(* C18: HashMap: after any sequence of insert calls, size() is the number  *)
(* of distinct keys inserted, also after the rehashes an insert triggers   *)
(* (when size exceeds 2 * bucket_count); and an insert of a key already    *)
(* present leaves size() unchanged.                                        *)
C18_SizeCountsDistinctKeys ==
    [][\A key \in Keys, value \in Values :
          insert(key, value)
              => /\ HashMap_size(map') = Cardinality(DOMAIN latest')
                 /\ key \in DOMAIN latest => HashMap_size(map') = HashMap_size(map)
    ]_vars

(* C19: HashMap: after any sequence of insert calls, also ones that        *)
(* trigger a rehash or a rehash inside a rehash, iter() yields each        *)
(* distinct key inserted exactly once, with the value of its most recent   *)
(* insert, and every pair is stored in the bucket whose index is           *)
(* hash(key) mod the current bucket_count.                                 *)
C19_IterYieldsEachKeyOnce ==
    map.bucket_count > 0 =>
        LET items == iter(map) IN
        /\ \A k \in DOMAIN latest :
              Cardinality({i \in 1..Len(items) : items[i][1] = k}) = 1
        /\ \A i \in 1..Len(items) :
              /\ items[i][1] \in DOMAIN latest
              /\ items[i][2] = latest[items[i][1]]
        /\ Len(map.buckets) = map.bucket_count
        /\ \A b \in 1..Len(map.buckets) :
              \A j \in 1..Len(map.buckets[b]) :
                 write(map.seed, map.buckets[b][j][1]) % map.bucket_count = b - 1

\* the insert that made size exceed 2 * bucket_count quadrupled the buckets
\* (a rehash inside the rehash), and the keys do not all hold the same value
C19_Witness ==
    /\ Cardinality(DOMAIN latest) = 2 * InitBuckets + 1
    /\ map.bucket_count = 4 * InitBuckets
    /\ map.size > Cardinality(DOMAIN latest) + 2 * InitBuckets + 1
    /\ Len(iter(map)) = 2 * InitBuckets + 1
    /\ \E k \in DOMAIN latest : latest[k] = 1
    /\ \E k \in DOMAIN latest : latest[k] = 0
====
